---- MODULE Spec2Model ----
(***************************************************************************)
(* Model of elftools/dwarf/location_expr.py: the DW_OP opcode table built   *)
(* at module import, and GenericLocationExprVisitor, the dispatch-driven    *)
(* decoder of DWARF location expressions.                                   *)
(***************************************************************************)
EXTENDS Integers, Sequences, FiniteSets, TLC

VARIABLES
    DW_OP_name2opcode,  \* module-level dict name -> code
    DW_OP_opcode2name,  \* module-level dict code -> name
    structs,            \* self.structs: the codec configuration of the decoder
    subclass,           \* which of the two hooks the decoder's class overrides
    _dispatch_table,    \* self._dispatch_table: code -> operand rule
    stream,             \* self.stream: the bytes of the stream
    pos,                \* self.stream position
    _cur_opcode,        \* self._cur_opcode
    _cur_opcode_name,   \* self._cur_opcode_name
    _cur_args,          \* self._cur_args
    pc,                 \* where the program is
    error,              \* the exception that left process_expr, if any
    hookLog,            \* what the overriding _after_visit has received in this call
    start,              \* stream position at which this process_expr call began
    iters,              \* loop iterations of this call that read an opcode byte
    lastVisitor,        \* the visitor the last iteration dispatched to
    gen                 \* arguments of a lone _generate_dynamic_values call

vars == <<DW_OP_name2opcode, DW_OP_opcode2name, structs, subclass,
          _dispatch_table, stream, pos, _cur_opcode, _cur_opcode_name,
          _cur_args, pc, error, hookLog, start, iters, lastVisitor, gen>>

-----------------------------------------------------------------------------
(* Python values *)

\* None, for the integer and string fields that start as None
NoneInt == 0 - 1
NoneStr == "None"

\* a dict as a function; d[k] = v
DictSet(d, k, v) == [x \in (DOMAIN d) \cup {k} |-> IF x = k THEN v ELSE d[x]]

\* dict.get(k, default)
DictGet(d, k, default) == IF k \in DOMAIN d THEN d[k] ELSE default

DictValues(d) == {d[k] : k \in DOMAIN d}

\* range(a, b) as an ascending sequence
Range(a, b) == [i \in 1..(IF b > a THEN b - a ELSE 0) |-> a + i - 1]

-----------------------------------------------------------------------------
(* The opcode table, built at module import *)

\* the keyword arguments of the dict(...) literal
StaticListing == {
    <<"DW_OP_addr", 3>>, <<"DW_OP_deref", 6>>, <<"DW_OP_const1u", 8>>,
    <<"DW_OP_const1s", 9>>, <<"DW_OP_const2u", 10>>, <<"DW_OP_const2s", 11>>,
    <<"DW_OP_const4u", 12>>, <<"DW_OP_const4s", 13>>, <<"DW_OP_const8u", 14>>,
    <<"DW_OP_const8s", 15>>, <<"DW_OP_constu", 16>>, <<"DW_OP_consts", 17>>,
    <<"DW_OP_dup", 18>>, <<"DW_OP_drop", 19>>, <<"DW_OP_over", 20>>,
    <<"DW_OP_pick", 21>>, <<"DW_OP_swap", 22>>, <<"DW_OP_rot", 23>>,
    <<"DW_OP_xderef", 24>>, <<"DW_OP_abs", 25>>, <<"DW_OP_and", 26>>,
    <<"DW_OP_div", 27>>, <<"DW_OP_minus", 28>>, <<"DW_OP_mod", 29>>,
    <<"DW_OP_mul", 30>>, <<"DW_OP_neg", 31>>, <<"DW_OP_not", 32>>,
    <<"DW_OP_or", 33>>, <<"DW_OP_plus", 34>>, <<"DW_OP_plus_uconst", 35>>,
    <<"DW_OP_shl", 36>>, <<"DW_OP_shr", 37>>, <<"DW_OP_shra", 38>>,
    <<"DW_OP_xor", 39>>, <<"DW_OP_bra", 40>>, <<"DW_OP_eq", 41>>,
    <<"DW_OP_ge", 42>>, <<"DW_OP_gt", 43>>, <<"DW_OP_le", 44>>,
    <<"DW_OP_lt", 45>>, <<"DW_OP_ne", 46>>, <<"DW_OP_skip", 47>>,
    <<"DW_OP_regx", 144>>, <<"DW_OP_fbreg", 145>>, <<"DW_OP_bregx", 146>>,
    <<"DW_OP_piece", 147>>, <<"DW_OP_deref_size", 148>>, <<"DW_OP_xderef_size", 149>>,
    <<"DW_OP_nop", 150>>, <<"DW_OP_push_object_address", 151>>, <<"DW_OP_call2", 152>>,
    <<"DW_OP_call4", 153>>, <<"DW_OP_call_ref", 154>>, <<"DW_OP_form_tls_address", 155>>,
    <<"DW_OP_call_frame_cfa", 156>>, <<"DW_OP_bit_piece", 157>>, <<"DW_OP_implicit_value", 158>>,
    <<"DW_OP_stack_value", 159>>, <<"DW_OP_GNU_push_tls_address", 224>>, <<"DW_OP_GNU_uninit", 240>>,
    <<"DW_OP_GNU_encoded_addr", 241>>, <<"DW_OP_GNU_implicit_pointer", 242>>, <<"DW_OP_GNU_entry_value", 243>>,
    <<"DW_OP_GNU_const_type", 244>>, <<"DW_OP_GNU_regval_type", 245>>, <<"DW_OP_GNU_deref_type", 246>>,
    <<"DW_OP_GNU_convert", 247>>, <<"DW_OP_GNU_reinterpret", 249>> }

\* dict(DW_OP_addr=0x03, ...)
StaticTable ==
    [n \in {p[1] : p \in StaticListing} |->
        (CHOOSE p \in StaticListing : p[1] = n)[2]]

\* '%s%s' % (prefix, index)
FormatName(prefix, index) == prefix \o ToString(index)

\* for index in range(index_start, index_end + 1)
DynamicIndices_Exclusive(index_start, index_end) == Range(index_start, index_end)

DynamicIndices(index_start, index_end) == Range(index_start, index_end + 1)

\* value = value_start + index - index_start
DynamicValue_OffByOne(value_start, index, index_start) ==
    value_start + index - index_start + 1

DynamicValue(value_start, index, index_start) ==
    value_start + index - index_start

RECURSIVE GenerateLoop(_, _, _, _, _)
\* the loop body, run for the indices still to come: map[name] = value
GenerateLoop(map, prefix, indices, index_start, value_start) ==
    IF indices = <<>> THEN map
    ELSE LET index == Head(indices)
             name  == FormatName(prefix, index)
             value == DynamicValue(value_start, index, index_start)
         IN  GenerateLoop(DictSet(map, name, value), prefix, Tail(indices),
                          index_start, value_start)

\* _generate_dynamic_values(map, prefix, index_start, index_end, value_start):
\* the dict after the call (the call mutates the dict it is given)
_generate_dynamic_values(map, prefix, index_start, index_end, value_start) ==
    GenerateLoop(map, prefix, DynamicIndices(index_start, index_end),
                 index_start, value_start)

\* the three module-level calls
LitFamily  == [prefix |-> "DW_OP_lit",  index_start |-> 0, index_end |-> 31, value_start |-> 48]
RegFamily  == [prefix |-> "DW_OP_reg",  index_start |-> 0, index_end |-> 31, value_start |-> 80]
BregFamily == [prefix |-> "DW_OP_breg", index_start |-> 0, index_end |-> 31, value_start |-> 112]

\* the names that map to code c
NamesOf(map, c) == {n \in DOMAIN map : map[n] = c}

\* dict((v, k) for k, v in DW_OP_name2opcode.iteritems()): every code maps to
\* a name that has it; when several names share a code the one iterated last
\* wins, and the iteration order of a dict is not fixed by the program
InverseTables(map) ==
    LET codes  == DictValues(map)
        shared == {c \in codes : Cardinality(NamesOf(map, c)) > 1}
        picks  == {g \in [shared -> DOMAIN map] : \A c \in shared : map[g[c]] = c}
    IN  {[c \in codes |-> IF c \in shared THEN g[c]
                          ELSE CHOOSE n \in DOMAIN map : map[n] = c] : g \in picks}

-----------------------------------------------------------------------------
(* The primitive codec: structs.Dwarf_* and struct_parse.  A decoded integer *)
(* is [neg, mag]: its sign and its magnitude in binary, least significant    *)
(* bit first, without high zero bits (values of 64 bits do not fit a TLC    *)
(* integer).                                                                 *)

RECURSIVE Pow2(_)
Pow2(n) == IF n = 0 THEN 1 ELSE 2 * Pow2(n - 1)

\* the low n bits of b, least significant first
ByteBits(b, n) == [i \in 1..n |-> (b \div Pow2(i - 1)) % 2]

RECURSIVE FlattenBits(_, _)
\* the low n bits of every byte, first byte least significant
FlattenBits(bytes, n) ==
    IF bytes = <<>> THEN <<>>
    ELSE ByteBits(Head(bytes), n) \o FlattenBits(Tail(bytes), n)

Reverse(s) == [i \in 1..Len(s) |-> s[Len(s) + 1 - i]]

RECURSIVE StripHigh(_)
StripHigh(bits) ==
    IF bits = <<>> \/ bits[Len(bits)] = 1 THEN bits
    ELSE StripHigh(SubSeq(bits, 1, Len(bits) - 1))

RECURSIVE Incr(_)
Incr(bits) ==
    IF bits = <<>> THEN <<>>
    ELSE IF Head(bits) = 0 THEN <<1>> \o Tail(bits)
    ELSE <<0>> \o Incr(Tail(bits))

Complement(bits) == [i \in 1..Len(bits) |-> 1 - bits[i]]

\* the integer a string of bits stands for, two's complement when signed
BitsValue(bits, signed) ==
    IF signed /\ bits # <<>> /\ bits[Len(bits)] = 1
    THEN [neg |-> TRUE,  mag |-> StripHigh(Incr(Complement(bits)))]
    ELSE [neg |-> FALSE, mag |-> StripHigh(bits)]

\* structs.Dwarf_uint8('') ... structs.Dwarf_int64(''): a fixed-width integer
\* in the byte order of the file
Dwarf_int(st, width, signed) ==
    [fmt |-> "fixed", width |-> width, signed |-> signed,
     little |-> st.little_endian]

\* structs.Dwarf_target_addr(''): unsigned, as wide as a target address
Dwarf_target_addr(st) == Dwarf_int(st, st.address_size, FALSE)

\* structs.Dwarf_uleb128('') and structs.Dwarf_sleb128('')
Dwarf_leb128(st, signed) ==
    [fmt |-> "leb128", width |-> 0, signed |-> signed, little |-> TRUE]

\* stream.read(n): the bytes read and the position afterwards
StreamRead(s, p, n) ==
    LET last == IF p + n <= Len(s) THEN p + n ELSE Len(s)
    IN  [data |-> SubSeq(s, p + 1, last), pos |-> last]

\* the number of bytes of the base-128 integer that starts after position p:
\* bytes are taken up to and including the first one below 0x80; 0 when the
\* stream ends first
RECURSIVE Leb128Length(_, _)
Leb128Length(s, p) ==
    IF p >= Len(s) THEN 0
    ELSE IF s[p + 1] < 128 THEN 1
    ELSE LET rest == Leb128Length(s, p + 1)
         IN  IF rest = 0 THEN 0 ELSE rest + 1

\* struct_parse(struct, stream): the value parsed at the stream position and
\* the position afterwards, or ELFParseError when the stream ends inside it
struct_parse(struct, s, p) ==
    IF struct.fmt = "fixed"
    THEN LET r == StreamRead(s, p, struct.width)
         IN  IF Len(r.data) # struct.width
             THEN [err |-> "ELFParseError", value |-> <<>>, pos |-> r.pos]
             ELSE [err |-> "none", pos |-> r.pos,
                   value |-> BitsValue(
                       FlattenBits(IF struct.little THEN r.data
                                   ELSE Reverse(r.data), 8),
                       struct.signed)]
    ELSE LET n == Leb128Length(s, p)
         IN  IF n = 0
             THEN [err |-> "ELFParseError", value |-> <<>>, pos |-> Len(s)]
             ELSE [err |-> "none", pos |-> p + n,
                   value |-> BitsValue(FlattenBits(SubSeq(s, p + 1, p + n), 7),
                                       struct.signed)]

-----------------------------------------------------------------------------
(* Streams.  A str is a sequence of characters; a character is [ch |-> its   *)
(* code].                                                                    *)

Chr(b) == [ch |-> b]
Ord(c) == c.ch

\* bytelist2string(expr): ''.join(chr(b) for b in expr)
bytelist2string(bytelist) == [i \in 1..Len(bytelist) |-> Chr(bytelist[i])]

\* the byte values of a str
StrBytes(s) == [i \in 1..Len(s) |-> Ord(s[i])]

-----------------------------------------------------------------------------
(* GenericLocationExprVisitor *)

NoStruct == [fmt |-> "none", width |-> 0, signed |-> FALSE, little |-> TRUE]

\* the bound method self._visit_OP_with_no_args, as a dispatch table entry
NoArgsRule == [kind |-> "no_args", struct |-> NoStruct]

\* self._make_visitor_for_struct(struct): the closure, as a dispatch table entry
_make_visitor_for_struct(struct) == [kind |-> "struct", struct |-> struct]

\* self._default_visitor, the fallback of _dispatch_table.get
DefaultRule == [kind |-> "default", struct |-> NoStruct]

\* the first loop of _init_dispatch_table
NoArgsOps ==
    << "DW_OP_deref", "DW_OP_dup", "DW_OP_drop", "DW_OP_over",
       "DW_OP_swap", "DW_OP_rot", "DW_OP_xderef", "DW_OP_abs",
       "DW_OP_and", "DW_OP_div", "DW_OP_minus", "DW_OP_mod",
       "DW_OP_mul", "DW_OP_neg", "DW_OP_not", "DW_OP_or",
       "DW_OP_eq", "DW_OP_ge", "DW_OP_gt", "DW_OP_le", "DW_OP_lt",
       "DW_OP_ne", "DW_OP_plus", "DW_OP_shl", "DW_OP_shr",
       "DW_OP_shra" >>

\* the add('DW_OP_...', self._make_visitor_for_struct(...)) calls, in order
StructOps_Const1sUnsigned(st) ==
    << <<"DW_OP_addr",        _make_visitor_for_struct(Dwarf_target_addr(st))>>,
       <<"DW_OP_const1u",     _make_visitor_for_struct(Dwarf_int(st, 1, FALSE))>>,
       <<"DW_OP_const1s",     _make_visitor_for_struct(Dwarf_int(st, 1, FALSE))>>,
       <<"DW_OP_const2u",     _make_visitor_for_struct(Dwarf_int(st, 2, FALSE))>>,
       <<"DW_OP_const2s",     _make_visitor_for_struct(Dwarf_int(st, 2, TRUE))>>,
       <<"DW_OP_const4u",     _make_visitor_for_struct(Dwarf_int(st, 4, FALSE))>>,
       <<"DW_OP_const4s",     _make_visitor_for_struct(Dwarf_int(st, 4, TRUE))>>,
       <<"DW_OP_const8u",     _make_visitor_for_struct(Dwarf_int(st, 8, FALSE))>>,
       <<"DW_OP_const8s",     _make_visitor_for_struct(Dwarf_int(st, 8, TRUE))>>,
       <<"DW_OP_constu",      _make_visitor_for_struct(Dwarf_leb128(st, FALSE))>>,
       <<"DW_OP_consts",      _make_visitor_for_struct(Dwarf_leb128(st, TRUE))>>,
       <<"DW_OP_plus_uconst", _make_visitor_for_struct(Dwarf_leb128(st, FALSE))>>,
       <<"DW_OP_pick",        _make_visitor_for_struct(Dwarf_int(st, 1, FALSE))>>,
       <<"DW_OP_bra",         _make_visitor_for_struct(Dwarf_int(st, 2, TRUE))>>,
       <<"DW_OP_skip",        _make_visitor_for_struct(Dwarf_int(st, 2, TRUE))>> >>

StructOps(st) ==
    << <<"DW_OP_addr",        _make_visitor_for_struct(Dwarf_target_addr(st))>>,
       <<"DW_OP_const1u",     _make_visitor_for_struct(Dwarf_int(st, 1, FALSE))>>,
       <<"DW_OP_const1s",     _make_visitor_for_struct(Dwarf_int(st, 1, TRUE))>>,
       <<"DW_OP_const2u",     _make_visitor_for_struct(Dwarf_int(st, 2, FALSE))>>,
       <<"DW_OP_const2s",     _make_visitor_for_struct(Dwarf_int(st, 2, TRUE))>>,
       <<"DW_OP_const4u",     _make_visitor_for_struct(Dwarf_int(st, 4, FALSE))>>,
       <<"DW_OP_const4s",     _make_visitor_for_struct(Dwarf_int(st, 4, TRUE))>>,
       <<"DW_OP_const8u",     _make_visitor_for_struct(Dwarf_int(st, 8, FALSE))>>,
       <<"DW_OP_const8s",     _make_visitor_for_struct(Dwarf_int(st, 8, TRUE))>>,
       <<"DW_OP_constu",      _make_visitor_for_struct(Dwarf_leb128(st, FALSE))>>,
       <<"DW_OP_consts",      _make_visitor_for_struct(Dwarf_leb128(st, TRUE))>>,
       <<"DW_OP_plus_uconst", _make_visitor_for_struct(Dwarf_leb128(st, FALSE))>>,
       <<"DW_OP_pick",        _make_visitor_for_struct(Dwarf_int(st, 1, FALSE))>>,
       <<"DW_OP_bra",         _make_visitor_for_struct(Dwarf_int(st, 2, TRUE))>>,
       <<"DW_OP_skip",        _make_visitor_for_struct(Dwarf_int(st, 2, TRUE))>> >>

\* the body of the last loop, for one i
FamilyOps(st, i) ==
    << <<FormatName("DW_OP_lit", i),  NoArgsRule>>,
       <<FormatName("DW_OP_reg", i),  NoArgsRule>>,
       <<FormatName("DW_OP_breg", i), _make_visitor_for_struct(Dwarf_leb128(st, TRUE))>> >>

RECURSIVE FamilyLoop(_, _)
FamilyLoop(st, indices) ==
    IF indices = <<>> THEN <<>>
    ELSE FamilyOps(st, Head(indices)) \o FamilyLoop(st, Tail(indices))

\* every add(opcode_name, func) call of _init_dispatch_table, in order
DispatchAdds(st) ==
    [i \in 1..Len(NoArgsOps) |-> <<NoArgsOps[i], NoArgsRule>>]
        \o StructOps(st) \o FamilyLoop(st, Range(0, 32))

\* _init_dispatch_table: the table it leaves in self._dispatch_table after
\* every add: self._dispatch_table[DW_OP_name2opcode[opcode_name]] = func
\* (the last add of a code is the one that stays)
_init_dispatch_table(st, name2opcode) ==
    LET adds   == DispatchAdds(st)
        code   == [i \in 1..Len(adds) |-> name2opcode[adds[i][1]]]
        last(c) == CHOOSE i \in 1..Len(adds) :
                       /\ code[i] = c
                       /\ \A j \in 1..Len(adds) : code[j] = c => j <= i
    IN  [c \in {code[i] : i \in 1..Len(adds)} |-> adds[last(c)][2]]

\* the names _init_dispatch_table looks up
DispatchNames(st) == {DispatchAdds(st)[i][1] : i \in 1..Len(DispatchAdds(st))}

\* the outcome of a visitor: the exception it raised ("none" when it
\* returned), self._cur_args and the stream position afterwards
Visited(err, args, p) == [err |-> err, args |-> args, pos |-> p]

\* a _visit_OP_with_no_args that takes a byte from the stream
_visit_OP_with_no_args_Read(args, s, p) == Visited("none", <<>>, StreamRead(s, p, 1).pos)

\* _visit_OP_with_no_args: self._cur_args = []
_visit_OP_with_no_args(args, s, p) == Visited("none", <<>>, p)

\* the closure of _make_visitor_for_struct, which swallows a parse error
StructVisitor_Swallow(struct, args, s, p) ==
    LET r == struct_parse(struct, StrBytes(s), p)
    IN  IF r.err # "none" THEN Visited("none", <<>>, r.pos)
        ELSE Visited("none", <<r.value>>, r.pos)

\* the closure of _make_visitor_for_struct:
\* self._cur_args = [struct_parse(struct, self.stream)]
StructVisitor(struct, args, s, p) ==
    LET r == struct_parse(struct, StrBytes(s), p)
    IN  IF r.err # "none" THEN Visited(r.err, args, r.pos)
        ELSE Visited("none", <<r.value>>, r.pos)

\* a _default_visitor that returns without raising
_default_visitor_Silent(sub, args, s, p) ==
    IF sub.default = "no_args" THEN Visited("none", <<>>, p)
    ELSE Visited("none", args, p)

\* _default_visitor: raises NotImplementedError unless the class overrides
\* it; the overrides modelled are one that returns at once ("pass") and one
\* that does what _visit_OP_with_no_args does ("no_args")
_default_visitor(sub, args, s, p) ==
    IF sub.default = "base" THEN Visited("NotImplementedError", args, p)
    ELSE IF sub.default = "no_args" THEN Visited("none", <<>>, p)
    ELSE Visited("none", args, p)

\* visitor(self._cur_opcode, self._cur_opcode_name)
CallVisitor(rule, sub, args, s, p) ==
    IF rule.kind = "no_args" THEN _visit_OP_with_no_args(args, s, p)
    ELSE IF rule.kind = "struct" THEN StructVisitor(rule.struct, args, s, p)
    ELSE _default_visitor(sub, args, s, p)

\* _after_visit(opcode, opcode_name, args): raises NotImplementedError unless
\* the class overrides it; the override modelled appends what it is given, and
\* where in the stream the instruction lies, to a log
_after_visit(sub, log, event) ==
    IF sub.after = "base" THEN [err |-> "NotImplementedError", log |-> log]
    ELSE [err |-> "none", log |-> Append(log, event)]

\* DW_OP_opcode2name.get(opcode): a lookup that does not raise
LookupName_Get(opcode2name, opcode) ==
    [err |-> "none", name |-> DictGet(opcode2name, opcode, NoneStr)]

\* DW_OP_opcode2name[self._cur_opcode]
LookupName(opcode2name, opcode) ==
    IF opcode \in DOMAIN opcode2name
    THEN [err |-> "none", name |-> opcode2name[opcode]]
    ELSE [err |-> "KeyError", name |-> NoneStr]

\* self.stream.read(1) that leaves the position where it was
ReadOpcode_NoAdvance(s, p) ==
    [data |-> StreamRead(s, p, 1).data, pos |-> p]

\* byte = self.stream.read(1)
ReadOpcode(s, p) == StreamRead(s, p, 1)

\* self._dispatch_table.get(self._cur_opcode, self._default_visitor)
Dispatch(table, opcode) == DictGet(table, opcode, DefaultRule)

\* the state of a decoder inside process_expr
Decoder(s, p, opcode, name, args, at, e, log, n, v) ==
    [stream |-> s, pos |-> p, cur_opcode |-> opcode, cur_opcode_name |-> name,
     cur_args |-> args, pc |-> at, error |-> e, hookLog |-> log, iters |-> n,
     lastVisitor |-> v]

\* one pass through the body of the while loop of process_expr
LoopBody(d, opcode2name, table, sub) ==
    LET rd == ReadOpcode(d.stream, d.pos)
    IN  IF Len(rd.data) = 0
        THEN \* break
             [d EXCEPT !.pos = rd.pos, !.pc = "done"]
        ELSE
        LET opcode == Ord(rd.data[1])
            lk     == LookupName(opcode2name, opcode)
        IN  IF lk.err # "none"
            THEN [d EXCEPT !.pos = rd.pos, !.cur_opcode = opcode,
                           !.iters = @ + 1, !.lastVisitor = "none",
                           !.pc = "raised", !.error = lk.err]
            ELSE
            LET rule == Dispatch(table, opcode)
                v    == CallVisitor(rule, sub, d.cur_args, d.stream, rd.pos)
            IN  IF v.err # "none"
                THEN [d EXCEPT !.pos = v.pos, !.cur_opcode = opcode,
                               !.cur_opcode_name = lk.name,
                               !.cur_args = v.args, !.iters = @ + 1,
                               !.lastVisitor = rule.kind,
                               !.pc = "raised", !.error = v.err]
                ELSE
                LET h == _after_visit(sub, d.hookLog,
                             [opcode |-> opcode, name |-> lk.name,
                              args |-> v.args,
                              from |-> d.pos, to |-> v.pos])
                IN  [d EXCEPT !.pos = v.pos, !.cur_opcode = opcode,
                              !.cur_opcode_name = lk.name,
                              !.cur_args = v.args, !.iters = @ + 1,
                              !.lastVisitor = rule.kind,
                              !.hookLog = h.log,
                              !.pc = IF h.err = "none" THEN "loop" ELSE "raised",
                              !.error = h.err]

-----------------------------------------------------------------------------
(* Bounds and the inputs drawn *)

\* longest expression over Alphabet given to a fresh decoder
MaxLen == 3
\* longest expression over ReuseAlphabet given to a decoder that has decoded
\* before
MaxReuseLen == 1
\* furthest position a caller's stream may already be at
MaxStart == 1

\* 0x00 (no opcode), DW_OP_const1u, DW_OP_const2s, DW_OP_dup, DW_OP_breg16 (as
\* an operand byte: continuation bit, sign bit) and DW_OP_nop
Alphabet == {0, 8, 11, 18, 128, 150}

\* DW_OP_dup and DW_OP_nop
ReuseAlphabet == {18, 150}

RECURSIVE SeqsUpTo(_, _)
SeqsUpTo(S, n) ==
    IF n = 0 THEN {<<>>}
    ELSE LET shorter == SeqsUpTo(S, n - 1)
         IN  shorter \cup {Append(s, b) : s \in {t \in shorter : Len(t) = n - 1}, b \in S}

\* operand bytes after a lone opcode: small bytes, and bytes that alternate
\* between a set and a clear top bit
LowPattern(n)  == [i \in 1..n |-> i]
HighPattern(n) == [i \in 1..n |-> IF i % 2 = 1 THEN 128 + i ELSE 127 - i]

\* widest operand of the dispatch table, Dwarf_uint64
WidestOperand == 8

\* every byte value as an opcode, followed by 0..WidestOperand operand bytes
SingleInputs ==
    {<<b>> \o pat : b \in 0..255,
                    pat \in {LowPattern(n) : n \in 0..WidestOperand}
                            \cup {HighPattern(n) : n \in 0..WidestOperand}}

ShortInputs == SeqsUpTo(Alphabet, MaxLen)
FreshInputs == ShortInputs \cup SingleInputs
ReuseInputs == SeqsUpTo(ReuseAlphabet, MaxReuseLen)

\* codec configurations: byte order and address width of the target
StructsConfigs ==
    { [little_endian |-> TRUE,  address_size |-> 4],
      [little_endian |-> FALSE, address_size |-> 8] }

\* the classes a decoder is an instance of: the base class, and subclasses
\* that override _after_visit alone or both hooks
Subclasses ==
    { [default |-> "base",    after |-> "base"],
      [default |-> "base",    after |-> "record"],
      [default |-> "pass",    after |-> "record"],
      [default |-> "no_args", after |-> "record"] }

NoConfig   == [little_endian |-> TRUE, address_size |-> 0]
NoSubclass == [default |-> "base", after |-> "base"]
NoGen      == [prefix |-> "", index_start |-> 0, index_end |-> 0, value_start |-> 0]

-----------------------------------------------------------------------------
(* The program *)

Init ==
    /\ DW_OP_name2opcode = StaticTable
    /\ DW_OP_opcode2name = <<>>
    /\ structs = NoConfig
    /\ subclass = NoSubclass
    /\ _dispatch_table = <<>>
    /\ stream = <<>>
    /\ pos = 0
    /\ _cur_opcode = NoneInt
    /\ _cur_opcode_name = NoneStr
    /\ _cur_args = <<>>
    /\ pc = "import_lit"
    /\ error = "none"
    /\ hookLog = <<>>
    /\ start = 0
    /\ iters = 0
    /\ lastVisitor = "none"
    /\ gen = NoGen

decoderVars == <<structs, subclass, _dispatch_table, stream, pos, _cur_opcode,
                 _cur_opcode_name, _cur_args, error, hookLog, start, iters,
                 lastVisitor>>

\* _generate_dynamic_values(DW_OP_name2opcode, 'DW_OP_lit', 0, 31, 0x30)
GenerateLit ==
    /\ pc = "import_lit"
    /\ DW_OP_name2opcode' =
           _generate_dynamic_values(DW_OP_name2opcode, LitFamily.prefix,
               LitFamily.index_start, LitFamily.index_end, LitFamily.value_start)
    /\ pc' = "import_reg"
    /\ UNCHANGED <<DW_OP_opcode2name, decoderVars, gen>>

\* _generate_dynamic_values(DW_OP_name2opcode, 'DW_OP_reg', 0, 31, 0x50)
GenerateReg ==
    /\ pc = "import_reg"
    /\ DW_OP_name2opcode' =
           _generate_dynamic_values(DW_OP_name2opcode, RegFamily.prefix,
               RegFamily.index_start, RegFamily.index_end, RegFamily.value_start)
    /\ pc' = "import_breg"
    /\ UNCHANGED <<DW_OP_opcode2name, decoderVars, gen>>

\* _generate_dynamic_values(DW_OP_name2opcode, 'DW_OP_breg', 0, 31, 0x70)
GenerateBreg ==
    /\ pc = "import_breg"
    /\ DW_OP_name2opcode' =
           _generate_dynamic_values(DW_OP_name2opcode, BregFamily.prefix,
               BregFamily.index_start, BregFamily.index_end, BregFamily.value_start)
    /\ pc' = "import_inverse"
    /\ UNCHANGED <<DW_OP_opcode2name, decoderVars, gen>>

\* DW_OP_opcode2name = dict(...)
BuildOpcode2name ==
    /\ pc = "import_inverse"
    /\ DW_OP_opcode2name' \in InverseTables(DW_OP_name2opcode)
    /\ pc' = "imported"
    /\ UNCHANGED <<DW_OP_name2opcode, decoderVars, gen>>

\* GenericLocationExprVisitor.__init__(structs), of a class of Subclasses;
\* a name missing from DW_OP_name2opcode is a KeyError in add()
Construct ==
    /\ pc = "imported"
    /\ \E st \in StructsConfigs, sub \in Subclasses :
        /\ structs' = st
        /\ subclass' = sub
        /\ stream' = <<>>
        /\ IF DispatchNames(st) \subseteq DOMAIN DW_OP_name2opcode
           THEN /\ _dispatch_table' = _init_dispatch_table(st, DW_OP_name2opcode)
                /\ pc' = "idle"
                /\ error' = "none"
           ELSE /\ _dispatch_table' = [c \in {} |-> NoArgsRule]
                /\ pc' = "construct_failed"
                /\ error' = "KeyError"
        /\ _cur_opcode' = NoneInt
        /\ _cur_opcode_name' = NoneStr
        /\ _cur_args' = <<>>
    /\ UNCHANGED <<DW_OP_name2opcode, DW_OP_opcode2name, pos, hookLog, start,
                   iters, lastVisitor, gen>>

\* process_expr(expr), up to the loop.  expr is a list of byte values, wrapped
\* in a StringIO at position 0, or a stream, used as it is at the position p0
\* its owner left it at.  A decoder is used again only after a short
\* expression, and then on one of ReuseInputs.
ProcessExpr ==
    /\ \/ pc = "idle"
       \/ pc \in {"done", "raised"} /\ StrBytes(stream) \in ShortInputs
    /\ \E expr \in (IF pc = "idle" THEN FreshInputs ELSE ReuseInputs),
          p0 \in 0..MaxStart :
        /\ p0 <= Len(expr)
        /\ p0 > 0 => (pc = "idle" /\ expr \in ShortInputs)
        /\ stream' = bytelist2string(expr)
        /\ pos' = p0
        /\ start' = p0
    /\ pc' = "loop"
    /\ error' = "none"
    /\ hookLog' = <<>>
    /\ iters' = 0
    /\ lastVisitor' = "none"
    /\ UNCHANGED <<DW_OP_name2opcode, DW_OP_opcode2name, structs, subclass,
                   _dispatch_table, _cur_opcode, _cur_opcode_name, _cur_args,
                   gen>>

\* one iteration of the while loop of process_expr
LoopStep ==
    /\ pc = "loop"
    /\ \E d \in {LoopBody(Decoder(stream, pos, _cur_opcode, _cur_opcode_name,
                                  _cur_args, pc, error, hookLog, iters,
                                  lastVisitor),
                          DW_OP_opcode2name, _dispatch_table, subclass)} :
           /\ pos' = d.pos
           /\ _cur_opcode' = d.cur_opcode
           /\ _cur_opcode_name' = d.cur_opcode_name
           /\ _cur_args' = d.cur_args
           /\ pc' = d.pc
           /\ error' = d.error
           /\ hookLog' = d.hookLog
           /\ iters' = d.iters
           /\ lastVisitor' = d.lastVisitor
    /\ UNCHANGED <<DW_OP_name2opcode, DW_OP_opcode2name, structs, subclass,
                   _dispatch_table, stream, start, gen>>

Next ==
    \/ GenerateLit
    \/ GenerateReg
    \/ GenerateBreg
    \/ BuildOpcode2name
    \/ Construct
    \/ ProcessExpr
    \/ LoopStep

Spec == Init /\ [][Next]_vars

-----------------------------------------------------------------------------
(* _generate_dynamic_values on its own: one call on the static table, with  *)
(* arguments drawn from small sets                                          *)

\* largest index_end drawn
MaxGenIndex == 3

GenArgs ==
    {[prefix |-> p, index_start |-> a, index_end |-> b, value_start |-> v] :
        p \in {"DW_OP_lit", "DW_OP_call", "DW_OP_const"},
        a \in 0..2, b \in 0..MaxGenIndex, v \in 44..50}

InitGen ==
    /\ DW_OP_name2opcode = StaticTable
    /\ DW_OP_opcode2name = <<>>
    /\ structs = NoConfig
    /\ subclass = NoSubclass
    /\ _dispatch_table = <<>>
    /\ stream = <<>>
    /\ pos = 0
    /\ _cur_opcode = NoneInt
    /\ _cur_opcode_name = NoneStr
    /\ _cur_args = <<>>
    /\ pc = "gen_call"
    /\ error = "none"
    /\ hookLog = <<>>
    /\ start = 0
    /\ iters = 0
    /\ lastVisitor = "none"
    /\ gen \in GenArgs

\* _generate_dynamic_values(DW_OP_name2opcode, prefix, index_start, index_end,
\* value_start): the function has no raise; it returns
GenCall ==
    /\ pc = "gen_call"
    /\ DW_OP_name2opcode' =
           _generate_dynamic_values(DW_OP_name2opcode, gen.prefix,
               gen.index_start, gen.index_end, gen.value_start)
    /\ pc' = "gen_done"
    /\ UNCHANGED <<DW_OP_opcode2name, decoderVars, gen>>

NextGen == GenCall

SpecGen == InitGen /\ [][NextGen]_vars

-----------------------------------------------------------------------------
(* What the claims speak of *)

InCall == pc \in {"loop", "done", "raised"}
Constructed == pc \in {"idle", "loop", "done", "raised"}

\* the bytes process_expr was given to decode
Input == SubSeq(StrBytes(stream), start + 1, Len(stream))

StaticNames == {p[1] : p \in StaticListing}
FamilyNames(prefix) == {FormatName(prefix, i) : i \in 0..31}
Injective(map) == \A m, n \in DOMAIN map : map[m] = map[n] => m = n

LitNames  == FamilyNames("DW_OP_lit")
RegNames  == FamilyNames("DW_OP_reg")
BregNames == FamilyNames("DW_OP_breg")

\* the operand shape each opcode name is documented to have: none, an
\* integer of a fixed width (of the address width for "addr") or a base-128
\* integer, signed or not
DocumentedShapes ==
    [n \in {NoArgsOps[i] : i \in 1..Len(NoArgsOps)} \cup LitNames \cup RegNames
        |-> <<"none", 0, FALSE>>]
    @@ [n \in {"DW_OP_const1u", "DW_OP_pick"} |-> <<"fixed", 1, FALSE>>]
    @@ [n \in {"DW_OP_const1s"} |-> <<"fixed", 1, TRUE>>]
    @@ [n \in {"DW_OP_const2u"} |-> <<"fixed", 2, FALSE>>]
    @@ [n \in {"DW_OP_const2s", "DW_OP_bra", "DW_OP_skip"} |-> <<"fixed", 2, TRUE>>]
    @@ [n \in {"DW_OP_const4u"} |-> <<"fixed", 4, FALSE>>]
    @@ [n \in {"DW_OP_const4s"} |-> <<"fixed", 4, TRUE>>]
    @@ [n \in {"DW_OP_const8u"} |-> <<"fixed", 8, FALSE>>]
    @@ [n \in {"DW_OP_const8s"} |-> <<"fixed", 8, TRUE>>]
    @@ [n \in {"DW_OP_addr"} |-> <<"addr", 0, FALSE>>]
    @@ [n \in {"DW_OP_constu", "DW_OP_plus_uconst"} |-> <<"leb128", 0, FALSE>>]
    @@ [n \in {"DW_OP_consts"} \cup BregNames |-> <<"leb128", 0, TRUE>>]

\* the documented shape of a name as a struct of the decoder's configuration;
\* "unbound" for a name without one
DocumentedShape(name) ==
    IF name \in DOMAIN DocumentedShapes
    THEN LET t == DocumentedShapes[name]
         IN  [fmt    |-> IF t[1] = "addr" THEN "fixed" ELSE t[1],
              width  |-> IF t[1] = "addr" THEN structs.address_size ELSE t[2],
              signed |-> t[3],
              little |-> structs.little_endian]
    ELSE [fmt |-> "unbound", width |-> 0, signed |-> FALSE, little |-> TRUE]

ShapeOfCode(c) ==
    IF c \in DOMAIN DW_OP_opcode2name THEN DocumentedShape(DW_OP_opcode2name[c])
    ELSE DocumentedShape(NoneStr)

\* bytes are exactly one operand of the shape
OperandComplete(shape, bytes) ==
    IF shape.fmt = "none" THEN bytes = <<>>
    ELSE IF shape.fmt = "fixed" THEN Len(bytes) = shape.width
    ELSE IF shape.fmt = "leb128"
        THEN /\ Len(bytes) >= 1
             /\ bytes[Len(bytes)] < 128
             /\ \A i \in 1..(Len(bytes) - 1) : bytes[i] >= 128
    ELSE FALSE

\* the stream ends inside the operand that starts with bytes
OperandCutShort(shape, bytes) ==
    \/ shape.fmt = "fixed" /\ Len(bytes) < shape.width
    \/ shape.fmt = "leb128" /\ \A i \in 1..Len(bytes) : bytes[i] >= 128

\* a valid instruction: an opcode byte with a documented shape, followed by
\* exactly its operand bytes
IsInstruction(bytes) ==
    /\ bytes # <<>>
    /\ OperandComplete(ShapeOfCode(bytes[1]), Tail(bytes))

\* the length of the valid instruction that bytes start with, 0 if none
FirstInstruction(bytes) ==
    LET ks == {k \in 1..Len(bytes) : IsInstruction(SubSeq(bytes, 1, k))}
    IN  IF ks = {} THEN 0 ELSE CHOOSE k \in ks : TRUE

RECURSIVE IsConcatenation(_)
\* bytes are the concatenation of N >= 0 valid instructions
IsConcatenation(bytes) ==
    \/ bytes = <<>>
    \/ /\ FirstInstruction(bytes) > 0
       /\ IsConcatenation(SubSeq(bytes, FirstInstruction(bytes) + 1, Len(bytes)))

RECURSIVE InstructionsOf(_, _)
\* the instructions of a concatenation that starts at stream position at:
\* opcode, name and the positions they lie between
InstructionsOf(bytes, at) ==
    IF bytes = <<>> THEN <<>>
    ELSE LET k == FirstInstruction(bytes)
         IN  <<[opcode |-> bytes[1], name |-> DW_OP_opcode2name[bytes[1]],
                from |-> at, to |-> at + k]>>
             \o InstructionsOf(SubSeq(bytes, k + 1, Len(bytes)), at + k)

\* opcode, name and place of what the hook was given
Placed(log) ==
    [i \in 1..Len(log) |-> [opcode |-> log[i].opcode, name |-> log[i].name,
                            from |-> log[i].from, to |-> log[i].to]]

RECURSIVE Consumed(_)
Consumed(log) ==
    IF log = <<>> THEN 0 ELSE (Head(log).to - Head(log).from) + Consumed(Tail(log))

\* the next opcode byte the loop will read, when there is one
AtOpcode == pc = "loop" /\ pos < Len(stream)
NextByte == Ord(stream[pos + 1])
Remaining == SubSeq(StrBytes(stream), pos + 2, Len(stream))

-----------------------------------------------------------------------------
(* Claims *)

\* C1: on an input that is the concatenation of N valid instructions, a
\* decoder whose completion hook returns never raises, the hook is invoked for
\* the instructions in input order, and when the loop has ended it has been
\* invoked exactly N times, the k-th time with the opcode and name of the k-th
\* instruction, the bytes consumed summing to the input length (for N = 0:
\* no iteration and no invocation).
C1_OneHookPerInstruction ==
    (InCall /\ subclass.after = "record" /\ IsConcatenation(Input)) =>
        LET expected == InstructionsOf(Input, start)
            got      == Placed(hookLog)
        IN  /\ pc # "raised"
            /\ Len(got) <= Len(expected)
            /\ got = SubSeq(expected, 1, Len(got))
            /\ pc = "done" =>
                /\ got = expected
                /\ iters = Len(expected)
                /\ Consumed(hookLog) = Len(Input)
                /\ pos = Len(stream)

C1_Witness ==
    /\ pc = "done" /\ subclass.after = "record" /\ IsConcatenation(Input)
    /\ Len(hookLog) = 2
    /\ hookLog[1].to - hookLog[1].from = 2
    /\ hookLog[2].to - hookLog[2].from = 1

\* C2: when the loop reads a byte that is not a key of DW_OP_opcode2name,
\* process_expr raises KeyError: no visitor and no hook runs for that byte, no
\* further byte is read, and the hook has run once for each instruction
\* decoded before it.
C2_UnknownOpcodeRaises ==
    [][(AtOpcode /\ NextByte \notin DOMAIN DW_OP_opcode2name) =>
        /\ pc' = "raised" /\ error' = "KeyError"
        /\ lastVisitor' = "none"
        /\ hookLog' = hookLog
        /\ _cur_args' = _cur_args
        /\ pos' = pos + 1
        /\ subclass.after = "record" => Len(hookLog') = iters' - 1]_vars

C2_Witness ==
    /\ pc = "raised" /\ error = "KeyError"
    /\ Ord(stream[pos]) \notin DOMAIN DW_OP_opcode2name
    /\ Len(hookLog) = 2

\* C3: when the stream ends inside the operand of the opcode the loop reads,
\* process_expr raises the parse error of the codec; the hook is not invoked
\* for that instruction and the loop does not end normally.
C3_OperandUnderrunRaises ==
    [][(AtOpcode /\ OperandCutShort(ShapeOfCode(NextByte), Remaining)) =>
        /\ pc' = "raised" /\ error' = "ELFParseError"
        /\ hookLog' = hookLog
        /\ _cur_args' = _cur_args]_vars

C3_Witness ==
    /\ pc = "raised" /\ error = "ELFParseError"
    /\ ShapeOfCode(_cur_opcode).fmt = "fixed"
    /\ pos - start > 1
    /\ Len(hookLog) = 1

\* C4: DW_OP_xor, DW_OP_regx and DW_OP_nop are in the opcode table and not in
\* the dispatch table; for every such opcode the loop calls the default
\* visitor, and on a decoder that does not override it process_expr raises
\* NotImplementedError without invoking the hook or touching the operands.
C4_UnboundOpcodeIsLoud ==
    /\ [](Constructed =>
            /\ {39, 144, 150} \subseteq DOMAIN DW_OP_opcode2name
            /\ {39, 144, 150} \cap DOMAIN _dispatch_table = {})
    /\ [][(/\ AtOpcode
           /\ NextByte \in DOMAIN DW_OP_opcode2name
           /\ NextByte \notin DOMAIN _dispatch_table) =>
            /\ lastVisitor' = "default"
            /\ subclass.default = "base" =>
                /\ pc' = "raised" /\ error' = "NotImplementedError"
                /\ hookLog' = hookLog
                /\ _cur_args' = _cur_args
                /\ pos' = pos + 1]_vars

C4_Witness ==
    /\ pc = "raised" /\ error = "NotImplementedError"
    /\ lastVisitor = "default" /\ subclass.after = "record"
    /\ _cur_opcode = 150
    /\ Len(hookLog) = 1

\* C5: every iteration that reads an opcode moves the stream position on by
\* at least one byte and every step of the loop either ends the call or is
\* such an iteration, so a call makes at most as many iterations as its input
\* has bytes.
C5_Terminates ==
    /\ [](InCall => (iters <= pos - start /\ pos <= Len(stream)))
    /\ [][pc = "loop" =>
            \/ pc' \in {"done", "raised"}
            \/ pc' = "loop" /\ iters' = iters + 1 /\ pos' > pos]_vars

C5_Witness ==
    /\ pc = "done" /\ iters = 3 /\ pos - start = 3

\* C6: after import the opcode table is a bijection: no two names have the
\* same code, the static listing and the three families are pairwise disjoint
\* in names and in codes, and the two dicts are inverses of each other.
C6_Bijection ==
    pc = "imported" =>
        LET lit  == LitNames
            reg  == RegNames
            breg == BregNames
            parts == <<StaticNames, lit, reg, breg>>
            codes(names) == {DW_OP_name2opcode[n] : n \in names \cap DOMAIN DW_OP_name2opcode}
        IN  /\ Injective(DW_OP_name2opcode)
            /\ \A i, j \in 1..4 : i # j =>
                /\ parts[i] \cap parts[j] = {}
                /\ codes(parts[i]) \cap codes(parts[j]) = {}
            /\ codes(lit) = 48..79 /\ codes(reg) = 80..111 /\ codes(breg) = 112..143
            /\ DOMAIN DW_OP_opcode2name = DictValues(DW_OP_name2opcode)
            /\ \A n \in DOMAIN DW_OP_name2opcode :
                   DW_OP_opcode2name[DW_OP_name2opcode[n]] = n
            /\ \A c \in DOMAIN DW_OP_opcode2name :
                   /\ DW_OP_opcode2name[c] \in DOMAIN DW_OP_name2opcode
                   /\ DW_OP_name2opcode[DW_OP_opcode2name[c]] = c

C6_Witness ==
    /\ pc = "imported"
    /\ DW_OP_opcode2name[143] = "DW_OP_breg31"
    /\ DW_OP_opcode2name[144] = "DW_OP_regx"

\* C7: a _generate_dynamic_values call returns only when it has produced no
\* name that was already a key and no code that was already assigned; it
\* never overwrites an entry or leaves a table that is not a bijection.
C7_FailFast ==
    pc = "gen_done" =>
        LET indices == gen.index_start..gen.index_end
            names == {FormatName(gen.prefix, i) : i \in indices}
            codes == {gen.value_start + i - gen.index_start : i \in indices}
        IN  /\ names \cap DOMAIN StaticTable = {}
            /\ codes \cap DictValues(StaticTable) = {}
            /\ \A n \in DOMAIN StaticTable : DW_OP_name2opcode[n] = StaticTable[n]
            /\ Injective(DW_OP_name2opcode)

\* C8: the dispatch table binds exactly the opcodes with a documented shape,
\* and whatever the hook is given for one of them has that shape: no operand
\* bytes and an empty operand list, or exactly the bytes of one integer of the
\* documented width and signedness and that integer as the only operand.
C8_OperandShapes ==
    Constructed =>
        /\ pc = "idle" =>
               DOMAIN _dispatch_table =
                   {c \in DOMAIN DW_OP_opcode2name : ShapeOfCode(c).fmt # "unbound"}
        /\ \A k \in 1..Len(hookLog) :
            LET e       == hookLog[k]
                shape   == DocumentedShape(e.name)
                operand == SubSeq(StrBytes(stream), e.from + 2, e.to)
                r       == struct_parse(shape, operand, 0)
            IN  /\ e.name = DW_OP_opcode2name[e.opcode]
                /\ shape.fmt = "none" => (operand = <<>> /\ e.args = <<>>)
                /\ shape.fmt \in {"fixed", "leb128"} =>
                    /\ OperandComplete(shape, operand)
                    /\ r.err = "none" /\ r.pos = Len(operand)
                    /\ e.args = <<r.value>>

C8_Witness ==
    /\ pc = "done"
    /\ Len(hookLog) = 1
    /\ hookLog[1].name = "DW_OP_const8s"
    /\ hookLog[1].to - hookLog[1].from = 9
    /\ hookLog[1].args[1].neg

\* C9: after the three module-level calls, name prefix + str(i) has code
\* base + i for every i in 0..31 of every family, and the families have added
\* 32 names each and nothing else.
C9_Families ==
    pc = "import_inverse" =>
        /\ \A f \in {LitFamily, RegFamily, BregFamily} : \A i \in 0..31 :
            /\ FormatName(f.prefix, i) \in DOMAIN DW_OP_name2opcode
            /\ DW_OP_name2opcode[FormatName(f.prefix, i)] = f.value_start + i
        /\ \A f \in {LitFamily, RegFamily, BregFamily} :
            Cardinality(FamilyNames(f.prefix) \ StaticNames) = 32
        /\ DOMAIN DW_OP_name2opcode =
               StaticNames \cup LitNames \cup RegNames \cup BregNames
        /\ Cardinality(DOMAIN DW_OP_name2opcode) = Cardinality(StaticNames) + 96

C9_Witness ==
    /\ pc = "import_inverse"
    /\ DW_OP_name2opcode["DW_OP_lit31"] = 79
    /\ DW_OP_name2opcode["DW_OP_reg0"] = 80
    /\ DW_OP_name2opcode["DW_OP_breg31"] = 143

\* what a decoder of the same class and configuration that has decoded
\* nothing before gives its hook for the instruction of event e alone
AloneArgs(e) ==
    LET d == LoopBody(Decoder(SubSeq(stream, e.from + 1, e.to), 0, NoneInt,
                              NoneStr, <<>>, "loop", "none", <<>>, 0, "none"),
                      DW_OP_opcode2name, _dispatch_table, subclass)
    IN  [i \in 1..Len(d.hookLog) |-> d.hookLog[i].args]

\* C10: the operands the hook is given for an instruction are those decoded
\* for that instruction, whatever the decoder decoded before: they are what a
\* decoder that has decoded nothing gives for the instruction alone.
C10_OperandsOfSameInstruction ==
    \A k \in 1..Len(hookLog) : AloneArgs(hookLog[k]) = <<hookLog[k].args>>

====
